---- MODULE Spec2Model ----
(***************************************************************************)
(* Headline Sentiment Analyser (src/Sentiment.py): one run of the script,  *)
(* from the sidebar inputs to the displayed table.                         *)
(*                                                                         *)
(* Text is a sequence of symbols: the whitespace symbols " " and "\n" and  *)
(* words.  str.strip, str.split and list membership work on that sequence. *)
(* An optional Python value is None (<<>>) or Some(x) (<<x>>).  An object  *)
(* with optional attributes is a record whose domain is the attributes it  *)
(* has, so hasattr(e, "a") is "a" \in DOMAIN e.                            *)
(***************************************************************************)
EXTENDS Integers, Sequences, FiniteSets, TLC

VARIABLES
    gemini_api_key,   \* sidebar: the key text input (line 68)
    feeds_input,      \* sidebar: the feeds text area (line 70)
    keywords_input,   \* sidebar: the keywords text area (line 71)
    pc,               \* position of the script
    feeds,            \* line 91
    initial_keywords, \* line 92
    two_weeks_ago,    \* line 103
    fi,               \* index in feeds of the feed_url of the for loop, line 108
    entries,          \* d.entries of the current feed, line 112
    ei,               \* index in entries of the entry of the for loop, line 112
    pub_date,         \* line 114
    matched_keyword,  \* line 119
    sentiment,        \* line 124
    results,          \* line 102
    messages,         \* what st.error / st.warning / st.info reported, in order
    shown,            \* the table given to st.dataframe (line 144), None before
    parsed,           \* history: what feedparser.parse did for each feed visited
    calls,            \* history: every model.generate_content call and its outcome
    unit              \* harness of the pure-function specification RelSpec

vars == <<gemini_api_key, feeds_input, keywords_input, pc, feeds, initial_keywords,
          two_weeks_ago, fi, entries, ei, pub_date, matched_keyword, sentiment,
          results, messages, shown, parsed, calls, unit>>

\* ---------------------------------------------------------------- bounds

\* the feeds text area holds this many feeds, or none
MaxFeeds == 2
\* at most this many entries delivered by the feeds of one run, all feeds together
MaxEntries == 2

\* ------------------------------------------------------- Python values

None == <<>>
Some(x) == <<x>>

Whitespace == {" ", "\n"}

RECURSIVE lstrip(_)
lstrip(s) == IF s # <<>> /\ Head(s) \in Whitespace THEN lstrip(Tail(s)) ELSE s

RECURSIVE rstrip(_)
rstrip(s) ==
    IF s # <<>> /\ s[Len(s)] \in Whitespace THEN rstrip(SubSeq(s, 1, Len(s) - 1)) ELSE s

\* str.strip()
strip(s) == rstrip(lstrip(s))

\* str.split('\n'): the pieces between the newlines, empty pieces kept
RECURSIVE split(_)
split(s) ==
    IF \A i \in 1..Len(s) : s[i] # "\n"
    THEN <<s>>
    ELSE LET i == CHOOSE j \in 1..Len(s) :
                      s[j] = "\n" /\ \A k \in 1..(j - 1) : s[k] # "\n"
         IN  <<SubSeq(s, 1, i - 1)>> \o split(SubSeq(s, i + 1, Len(s)))

\* a non-empty text is truthy
NonEmpty(s) == s # <<>>

\* [x.strip() for x in text.split('\n') if x.strip()]   (lines 91, 92)
StrippedLines(text) ==
    LET lines == split(text)
        stripped == [i \in 1..Len(lines) |-> strip(lines[i])]
    IN  SelectSeq(stripped, NonEmpty)

\* x in list
In(x, list) == \E i \in 1..Len(list) : list[i] = x

\* truthiness of an optional text: None and "" are falsy
Truthy(opt) == opt # None /\ opt[1] # <<>>

hasattr(obj, a) == a \in DOMAIN obj

\* the outcome of an external call: it raised, or it returned a value
Raised == [ok |-> FALSE]
Returned(v) == [ok |-> TRUE, value |-> v]

\* --------------------------------------------------------- the classifier

\* the sentinel of a failed sentiment call (line 51)
ApiError == <<"API", " ", "Error">>

\* check_article_relevance (lines 10-37), given what model.generate_content did:
\* the reply text stripped is returned when it is one of the keywords, None
\* otherwise and when the call raised
check_article_relevance_trust_reply(reply, keywords) ==
    IF ~reply.ok THEN None
    ELSE IF strip(reply.value) # <<"None">> THEN Some(strip(reply.value)) ELSE None

check_article_relevance(reply, keywords) ==
    IF ~reply.ok THEN None
    ELSE LET result == strip(reply.value)
         IN  IF In(result, keywords) THEN Some(result) ELSE None

\* get_gemini_sentiment (lines 40-51): the reply stripped, verbatim, or the sentinel
get_gemini_sentiment(reply) ==
    IF reply.ok THEN strip(reply.value) ELSE ApiError

\* ---------------------------------------------------------------- time

\* timedelta(days=14), line 103
WindowDays == 14

\* A datetime is [day, hour, minute, second, microsecond], day standing for the
\* calendar date.  A struct_time is <<day, hour, minute, second, wday, yday,
\* isdst>>, its date likewise one component, so that t[:6] is its first four.
\* feedparser builds published_parsed from a date it parsed, so its fields are
\* in range and datetime(...) of line 114 does not raise.

\* datetime(*entry.published_parsed[:6], tzinfo=timezone.utc), line 114
MakeDatetime(t) ==
    [day |-> t[1], hour |-> t[2], minute |-> t[3], second |-> t[4], microsecond |-> 0]

\* datetime.now(timezone.utc) - timedelta(days=14), line 103
MinusWindow(now) == [now EXCEPT !.day = @ - WindowDays]

\* a >= b on datetimes
DatetimeGE_strict(a, b) ==
    LET ka == <<a.day, a.hour, a.minute, a.second, a.microsecond>>
        kb == <<b.day, b.hour, b.minute, b.second, b.microsecond>>
    IN  \E i \in 1..5 : ka[i] > kb[i] /\ \A j \in 1..(i - 1) : ka[j] = kb[j]

DatetimeGE(a, b) ==
    LET ka == <<a.day, a.hour, a.minute, a.second, a.microsecond>>
        kb == <<b.day, b.hour, b.minute, b.second, b.microsecond>>
    IN  \/ ka = kb
        \/ \E i \in 1..5 : ka[i] > kb[i] /\ \A j \in 1..(i - 1) : ka[j] = kb[j]

\* pub_date.strftime('%Y-%m-%d'), line 132: the date, the time of day dropped
FormatDate(d) == d.day

\* hasattr(entry, 'published_parsed') and entry.published_parsed, line 113
HasPublished(entry) ==
    hasattr(entry, "published_parsed") /\ entry.published_parsed # None

\* the row appended at lines 127-133
Row(entry, keyword, label, date) ==
    [Headline |-> entry.title, Link |-> entry.link, MatchedKeyword |-> keyword,
     Sentiment |-> label, Date |-> FormatDate(date)]

\* ------------------------------------------------------ the environment

SeqsUpTo(S, n) == UNION {[1..k -> S] : k \in 0..n}

\* the values of the key input: empty, or a key
ApiKeyChoices == {<<>>, <<"key">>}

UrlNames == <<"feedA", "feedB", "feedC", "feedD">>

\* a feeds text area of n lines
RECURSIVE FeedsText(_)
FeedsText(n) ==
    IF n = 0 THEN <<>>
    ELSE IF n = 1 THEN <<UrlNames[1]>>
    ELSE FeedsText(n - 1) \o <<"\n", " ", UrlNames[n]>>

FeedsInputChoices == {FeedsText(0), FeedsText(MaxFeeds)}

\* keyword text areas: empty, one topic, two topics (one of them the word None)
\* with blank lines and padding
KeywordsInputChoices ==
    { <<" ", "\n">>,
      <<"NVIDIA">>,
      <<" ", "NVIDIA", "\n", "\n", "None", " ">> }

\* the clock when line 103 runs: on a whole second, and a microsecond later
NowChoices ==
    { [day |-> 100, hour |-> 12, minute |-> 0, second |-> 0, microsecond |-> 0],
      [day |-> 100, hour |-> 12, minute |-> 0, second |-> 0, microsecond |-> 1] }

Title == <<"NVIDIA", " ", "unveils", " ", "chip">>
Link == <<"https://example/1">>

\* publish times: 14 days before the whole-second clock to the second, and a
\* later day
AtCutoff == <<86, 12, 0, 0, 1, 86, 0>>
Later == <<87, 0, 0, 0, 2, 87, 0>>

\* the entries feedparser delivers: complete and published at the cutoff of
\* the whole-second clock, without a publish time, with None as publish time,
\* and published later without a title or without a link
EntryPool ==
    { [title |-> Title, link |-> Link, published_parsed |-> AtCutoff],
      [title |-> Title, link |-> Link],
      [title |-> Title, link |-> Link, published_parsed |-> None],
      [link |-> Link, published_parsed |-> Later],
      [title |-> Title, published_parsed |-> Later] }

\* what model.generate_content does for a relevance prompt
RelevanceReplies ==
    { Raised,
      Returned(<<"None">>),
      Returned(<<" ", "NVIDIA", "\n">>) }

\* what model.generate_content does for a sentiment prompt
SentimentReplies ==
    { Raised,
      Returned(<<"Positive", "\n">>),
      Returned(<<"Mixed">>) }

\* ------------------------------------------------------------ messages

KeyInfo == [fn |-> "info", what |-> "enter_key"]                    \* line 75
ConfigureError == [fn |-> "error", what |-> "configure"]            \* line 85
InputsWarning == [fn |-> "warning", what |-> "no_feed_or_keyword"]  \* line 95
RelevanceError == [fn |-> "error", what |-> "relevance"]            \* line 36
SentimentError == [fn |-> "error", what |-> "sentiment"]            \* line 50
FeedError(feed_url) == [fn |-> "error", what |-> "feed", feed_url |-> feed_url] \* line 135
NoArticlesInfo == [fn |-> "info", what |-> "no_articles"]           \* line 140

\* ------------------------------------------------------------ the script

\* the harness of RelSpec, unused by the run of the script
UnitOff == [stage |-> "off"]

Init ==
    /\ gemini_api_key \in ApiKeyChoices
    /\ feeds_input \in FeedsInputChoices
    /\ keywords_input \in KeywordsInputChoices
    /\ pc = "key"
    /\ feeds = <<>>
    /\ initial_keywords = <<>>
    /\ two_weeks_ago = None
    /\ fi = 0
    /\ entries = <<>>
    /\ ei = 0
    /\ pub_date = None
    /\ matched_keyword = None
    /\ sentiment = None
    /\ results = <<>>
    /\ messages = <<>>
    /\ shown = None
    /\ parsed = <<>>
    /\ calls = <<>>
    /\ unit = UnitOff

inputs == <<gemini_api_key, feeds_input, keywords_input>>
config == <<feeds, initial_keywords, two_weeks_ago>>
entry_locals == <<pub_date, matched_keyword, sentiment>>

\* lines 74-76: no key, st.info and st.stop()
NoKey ==
    /\ pc = "key"
    /\ gemini_api_key = <<>>
    /\ messages' = Append(messages, KeyInfo)
    /\ pc' = "stopped"
    /\ UNCHANGED <<inputs, config, fi, entries, ei, entry_locals, results, shown,
                   parsed, calls, unit>>

\* lines 74, 79: a key is there; the button is what starts the analysis
HasKey ==
    /\ pc = "key"
    /\ gemini_api_key # <<>>
    /\ pc' = "button"
    /\ UNCHANGED <<inputs, config, fi, entries, ei, entry_locals, results, messages,
                   shown, parsed, calls, unit>>

\* line 79: the button is not clicked in this run of the script, which ends
NotClicked ==
    /\ pc = "button"
    /\ pc' = "stopped"
    /\ UNCHANGED <<inputs, config, fi, entries, ei, entry_locals, results, messages,
                   shown, parsed, calls, unit>>

\* lines 79-83: clicked, genai.configure and GenerativeModel return
Configure ==
    /\ pc = "button"
    /\ pc' = "inputs"
    /\ UNCHANGED <<inputs, config, fi, entries, ei, entry_locals, results, messages,
                   shown, parsed, calls, unit>>

\* lines 84-86: clicked, configuring raises: st.error and st.stop()
ConfigureRaises ==
    /\ pc = "button"
    /\ messages' = Append(messages, ConfigureError)
    /\ pc' = "stopped"
    /\ UNCHANGED <<inputs, config, fi, entries, ei, entry_locals, results, shown,
                   parsed, calls, unit>>

\* lines 91-96: the text areas as lists; an empty list stops the run
InputsEmpty ==
    /\ pc = "inputs"
    /\ feeds' = StrippedLines(feeds_input)
    /\ initial_keywords' = StrippedLines(keywords_input)
    /\ feeds' = <<>> \/ initial_keywords' = <<>>
    /\ messages' = Append(messages, InputsWarning)
    /\ pc' = "stopped"
    /\ UNCHANGED <<inputs, two_weeks_ago, fi, entries, ei, entry_locals, results,
                   shown, parsed, calls, unit>>

\* lines 91-106: both lists non-empty: results = [], the cutoff, the loop begins
StartProcessing ==
    /\ pc = "inputs"
    /\ feeds' = StrippedLines(feeds_input)
    /\ initial_keywords' = StrippedLines(keywords_input)
    /\ feeds' # <<>> /\ initial_keywords' # <<>>
    /\ results' = <<>>
    /\ \E now \in NowChoices : two_weeks_ago' = MinusWindow(now)
    /\ fi' = 1
    /\ pc' = "feeds"
    /\ UNCHANGED <<inputs, entries, ei, entry_locals, messages, shown, parsed,
                   calls, unit>>

\* the entries delivered so far in this run
RECURSIVE Delivered(_)
Delivered(ps) ==
    IF ps = <<>> THEN 0
    ELSE (IF Head(ps).ok THEN Len(Head(ps).value) ELSE 0) + Delivered(Tail(ps))

\* lines 134-135: the except clause of the feed's try: st.error, then the for
\* loop goes on with the next feed_url (said is the messages up to the raise)
FeedExcept_stop(said) ==
    /\ messages' = Append(said, FeedError(feeds[fi]))
    /\ fi' = fi
    /\ pc' = "stopped"

FeedExcept_outer(said) ==
    /\ messages' = Append(said, FeedError(feeds[fi]))
    /\ fi' = Len(feeds) + 1
    /\ pc' = "feeds"

FeedExcept_silent(said) ==
    /\ messages' = said
    /\ fi' = fi + 1
    /\ pc' = "feeds"

FeedExcept(said) ==
    /\ messages' = Append(said, FeedError(feeds[fi]))
    /\ fi' = fi + 1
    /\ pc' = "feeds"

\* lines 108-111, 134-135: feedparser.parse raises
FeedRaises ==
    /\ pc = "feeds"
    /\ fi <= Len(feeds)
    /\ parsed' = Append(parsed, Raised)
    /\ FeedExcept(messages)
    /\ UNCHANGED <<inputs, config, entries, ei, entry_locals, results, shown, calls,
                   unit>>

\* lines 108-112: feedparser.parse returns d; the loop over d.entries begins
FeedParsed ==
    /\ pc = "feeds"
    /\ fi <= Len(feeds)
    /\ \E es \in SeqsUpTo(EntryPool, MaxEntries - Delivered(parsed)) :
          /\ entries' = es
          /\ parsed' = Append(parsed, Returned(es))
    /\ ei' = 1
    /\ pc' = "entries"
    /\ UNCHANGED <<inputs, config, fi, entry_locals, results, messages, shown,
                   calls, unit>>

\* line 112: d.entries is exhausted, the try block ends
EndOfEntries ==
    /\ pc = "entries"
    /\ ei > Len(entries)
    /\ fi' = fi + 1
    /\ pc' = "feeds"
    /\ UNCHANGED <<inputs, config, entries, ei, entry_locals, results, messages,
                   shown, parsed, calls, unit>>

\* line 113 false: no publish time; the loop goes on with the next entry
NoPublishTime ==
    /\ pc = "entries"
    /\ ei <= Len(entries)
    /\ ~HasPublished(entries[ei])
    /\ ei' = ei + 1
    /\ UNCHANGED <<inputs, config, fi, entries, entry_locals, results, messages,
                   shown, parsed, calls, pc, unit>>

\* lines 114-116: pub_date is built and compared with the cutoff
RecencyCheck ==
    /\ pc = "entries"
    /\ ei <= Len(entries)
    /\ HasPublished(entries[ei])
    /\ pub_date' = MakeDatetime(entries[ei].published_parsed)
    /\ IF DatetimeGE(pub_date', two_weeks_ago)
       THEN pc' = "relevance" /\ ei' = ei
       ELSE pc' = "entries" /\ ei' = ei + 1
    /\ UNCHANGED <<inputs, config, fi, entries, matched_keyword, sentiment, results,
                   messages, shown, parsed, calls, unit>>

\* line 119: entry.title raises AttributeError, caught at line 134
TitleMissing ==
    /\ pc = "relevance"
    /\ ~hasattr(entries[ei], "title")
    /\ FeedExcept(messages)
    /\ UNCHANGED <<inputs, config, entries, ei, entry_locals, results, shown, parsed,
                   calls, unit>>

\* lines 119-121: one call of check_article_relevance, and the test of its result
Relevance_retry ==
    /\ pc = "relevance"
    /\ hasattr(entries[ei], "title")
    /\ \E reply \in RelevanceReplies :
          /\ calls' = Append(calls, [fn |-> "relevance", feed |-> fi, entry |-> ei,
                                     reply |-> reply])
          /\ matched_keyword' = check_article_relevance(reply, initial_keywords)
          /\ messages' = IF reply.ok THEN messages
                         ELSE Append(messages, RelevanceError)
          /\ IF ~reply.ok
             THEN pc' = "relevance" /\ ei' = ei
             ELSE IF Truthy(matched_keyword')
                  THEN pc' = "sentiment" /\ ei' = ei
                  ELSE pc' = "entries" /\ ei' = ei + 1
    /\ UNCHANGED <<inputs, config, fi, entries, pub_date, sentiment, results, shown,
                   parsed, unit>>

Relevance ==
    /\ pc = "relevance"
    /\ hasattr(entries[ei], "title")
    /\ \E reply \in RelevanceReplies :
          /\ calls' = Append(calls, [fn |-> "relevance", feed |-> fi, entry |-> ei,
                                     reply |-> reply])
          /\ matched_keyword' = check_article_relevance(reply, initial_keywords)
          /\ messages' = IF reply.ok THEN messages
                         ELSE Append(messages, RelevanceError)
    /\ IF Truthy(matched_keyword')
       THEN pc' = "sentiment" /\ ei' = ei
       ELSE pc' = "entries" /\ ei' = ei + 1
    /\ UNCHANGED <<inputs, config, fi, entries, pub_date, sentiment, results, shown,
                   parsed, unit>>

\* lines 123-133: one call of get_gemini_sentiment, then the row is appended and
\* the loop goes on with the next entry
Sentiment ==
    /\ pc = "sentiment"
    /\ hasattr(entries[ei], "link")
    /\ \E reply \in SentimentReplies :
          /\ calls' = Append(calls, [fn |-> "sentiment", feed |-> fi, entry |-> ei,
                                     reply |-> reply])
          /\ sentiment' = get_gemini_sentiment(reply)
          /\ messages' = IF reply.ok THEN messages
                         ELSE Append(messages, SentimentError)
    /\ results' = Append(results,
                         Row(entries[ei], matched_keyword[1], sentiment', pub_date))
    /\ ei' = ei + 1
    /\ pc' = "entries"
    /\ UNCHANGED <<inputs, config, fi, entries, pub_date, matched_keyword, shown,
                   parsed, unit>>

\* lines 123-129, 134-135: one call of get_gemini_sentiment, then entry.link
\* raises AttributeError while the row is built, caught at line 134
LinkMissing ==
    /\ pc = "sentiment"
    /\ ~hasattr(entries[ei], "link")
    /\ \E reply \in SentimentReplies :
          /\ calls' = Append(calls, [fn |-> "sentiment", feed |-> fi, entry |-> ei,
                                     reply |-> reply])
          /\ sentiment' = get_gemini_sentiment(reply)
          /\ FeedExcept(IF reply.ok THEN messages ELSE Append(messages, SentimentError))
    /\ UNCHANGED <<inputs, config, entries, ei, pub_date, matched_keyword, results,
                   shown, parsed, unit>>

\* lines 138-150: the loop over the feeds is over; the table, or the info
Display ==
    /\ pc = "feeds"
    /\ fi > Len(feeds)
    /\ IF results = <<>>
       THEN messages' = Append(messages, NoArticlesInfo) /\ shown' = None
       ELSE messages' = messages /\ shown' = Some(results)
    /\ pc' = "done"
    /\ UNCHANGED <<inputs, config, fi, entries, ei, entry_locals, results, parsed,
                   calls, unit>>

Next ==
    \/ NoKey
    \/ HasKey
    \/ NotClicked
    \/ Configure
    \/ ConfigureRaises
    \/ InputsEmpty
    \/ StartProcessing
    \/ FeedRaises
    \/ FeedParsed
    \/ EndOfEntries
    \/ NoPublishTime
    \/ RecencyCheck
    \/ TitleMissing
    \/ Relevance
    \/ Sentiment
    \/ LinkMissing
    \/ Display

Spec == Init /\ [][Next]_vars

\* the scheduling is one synchronous thread: a step that can be taken is taken
FairSpec == Spec /\ WF_vars(Next)

\* ------------------------------------- check_article_relevance on its own

\* topic lists, as a caller may pass them: also an empty list, an empty topic,
\* a padded topic and the topic "None"
TopicPool ==
    { <<"NVIDIA">>, <<"None">>, <<"AI">>, <<>>, <<" ", "NVIDIA">> }

\* what the classifier may do: raise, or reply any text
ReplyPool ==
    { Raised,
      Returned(<<"NVIDIA">>),
      Returned(<<" ", "NVIDIA", "\n">>),
      Returned(<<"nvidia">>),
      Returned(<<"None">>),
      Returned(<<"NVIDIA", " ", "AI">>),
      Returned(<<"AI", "\n", "\n">>),
      Returned(<<>>),
      Returned(<<" ">>) }

RelInit ==
    /\ gemini_api_key = <<"key">>
    /\ feeds_input = <<>>
    /\ keywords_input = <<>>
    /\ pc = "unit"
    /\ feeds = <<>>
    /\ initial_keywords = <<>>
    /\ two_weeks_ago = None
    /\ fi = 0
    /\ entries = <<>>
    /\ ei = 0
    /\ pub_date = None
    /\ matched_keyword = None
    /\ sentiment = None
    /\ results = <<>>
    /\ messages = <<>>
    /\ shown = None
    /\ parsed = <<>>
    /\ calls = <<>>
    /\ \E keywords \in SeqsUpTo(TopicPool, 2), reply \in ReplyPool :
          unit = [stage |-> "called", keywords |-> keywords, reply |-> reply]

\* lines 10-37: the call returns; st.error reported the classifier's error, if any
RelReturn ==
    /\ unit.stage = "called"
    /\ unit' = [stage |-> "returned", keywords |-> unit.keywords, reply |-> unit.reply,
                result |-> check_article_relevance(unit.reply, unit.keywords)]
    /\ messages' = IF unit.reply.ok THEN messages ELSE Append(messages, RelevanceError)
    /\ UNCHANGED <<inputs, config, pc, fi, entries, ei, entry_locals, results, shown,
                   parsed, calls>>

RelNext == RelReturn

RelSpec == RelInit /\ [][RelNext]_vars

\* ------------------------------------------------ reading the history

EntryAt(f, e) == parsed[f].value[e]

\* the indices in calls of the calls of function fn made for the entry at (f, e)
CallsFor(fn, f, e) ==
    {i \in 1..Len(calls) : calls[i].fn = fn /\ calls[i].feed = f /\ calls[i].entry = e}

\* the entry's publish time is there and not before the cutoff, reckoned in
\* seconds since the cutoff's midnight, then in microseconds
SecondsFrom(day0, d) == (d.day - day0) * 86400 + d.hour * 3600 + d.minute * 60 + d.second

IsRecent(entry, cutoff) ==
    /\ "published_parsed" \in DOMAIN entry
    /\ entry.published_parsed # <<>>
    /\ LET t == entry.published_parsed
           at == (t[1] - cutoff.day) * 86400 + t[2] * 3600 + t[3] * 60 + t[4]
           cut == SecondsFrom(cutoff.day, cutoff)
       IN  at > cut \/ (at = cut /\ cutoff.microsecond = 0)

\* the classifier's reply, trimmed, names one of the topics
NamesTopic(reply, topics) ==
    reply.ok /\ \E k \in 1..Len(topics) : topics[k] = strip(reply.value)

\* the number of messages equal to m
Count(m) == Cardinality({i \in 1..Len(messages) : messages[i] = m})

\* the rows the run reports for the entries of feed f from entry e on: one for
\* every entry that got a sentiment label and whose row could be assembled
RECURSIVE RowsFrom(_, _)
RowsFrom(f, e) ==
    IF e > Len(parsed[f].value) THEN <<>>
    ELSE LET en == EntryAt(f, e)
             rc == CallsFor("relevance", f, e)
             sc == CallsFor("sentiment", f, e)
             row == [Headline |-> en.title,
                     Link |-> en.link,
                     MatchedKeyword |-> strip(calls[CHOOSE i \in rc : TRUE].reply.value),
                     Sentiment |-> LET r == calls[CHOOSE i \in sc : TRUE].reply
                                   IN  IF r.ok THEN strip(r.value) ELSE ApiError,
                     Date |-> en.published_parsed[1]]
         IN  (IF sc # {} /\ "link" \in DOMAIN en
              THEN <<row>> ELSE <<>>) \o RowsFrom(f, e + 1)

RECURSIVE RowsOfFeeds(_)
RowsOfFeeds(f) ==
    IF f > Len(parsed) THEN <<>>
    ELSE (IF parsed[f].ok THEN RowsFrom(f, 1) ELSE <<>>) \o RowsOfFeeds(f + 1)

\* ---------------------------------------------------------------- claims

\* C1: check_article_relevance returns None or one of the supplied topics,
\* for every topic list and every classifier behaviour; a reply that, trimmed,
\* is not one of the topics gives None, and so does a classifier error, which
\* is reported and not raised.
C1_RelevanceExclusive ==
    unit.stage = "returned" =>
        /\ \/ unit.result = None
           \/ /\ Len(unit.result) = 1
              /\ \E k \in 1..Len(unit.keywords) : unit.keywords[k] = unit.result[1]
        /\ ~NamesTopic(unit.reply, unit.keywords) => unit.result = None
        /\ NamesTopic(unit.reply, unit.keywords) => unit.result # None
        /\ ~unit.reply.ok => unit.result = None /\ messages = <<RelevanceError>>

\* a reply outside the list was coerced to None
C1_Witness ==
    /\ unit.stage = "returned"
    /\ unit.reply = Returned(<<"nvidia">>)
    /\ unit.keywords = <<<<"NVIDIA">>, <<"AI">>>>
    /\ unit.result = None

\* C2: an entry goes on to the relevance stage exactly when its publish time
\* is present and not before the cutoff (at the cutoff it goes on, any amount
\* earlier it does not); the relevance stage is entered only that way, the
\* sentiment stage only from the relevance stage of the same entry, and the
\* classifier is called in those two stages only.
C2_RecencyFilter ==
    [][ /\ (pc = "entries" /\ ei <= Len(entries)) =>
              ((pc' = "relevance" /\ ei' = ei) <=> IsRecent(entries[ei], two_weeks_ago))
        /\ (pc' = "relevance" /\ pc # "relevance") =>
              (pc = "entries" /\ ei <= Len(entries) /\ entries' = entries)
        /\ (pc' = "sentiment") =>
              (pc = "relevance" /\ ei' = ei /\ fi' = fi /\ entries' = entries)
        /\ (calls' # calls) => pc \in {"relevance", "sentiment"}
      ]_vars

\* an entry published at the cutoff to the microsecond passed the filter
C2_Witness ==
    /\ pc = "relevance"
    /\ MakeDatetime(entries[ei].published_parsed) = two_weeks_ago

\* the stages of the loop over the feeds
LoopStages == {"feeds", "entries", "relevance", "sentiment"}

C4_ClosedLabelSet ==
    \A i \in 1..Len(results) :
        results[i].Sentiment \in {<<"Positive">>, <<"Negative">>, <<"Neutral">>, ApiError}

\* C5: every entry with a matched topic whose sentiment call failed is a row of
\* the report with the error sentinel as its sentiment, and the run goes on.
C5_SentimentFailureKeepsRow ==
    LET failed == {i \in 1..Len(calls) : calls[i].fn = "sentiment" /\ ~calls[i].reply.ok}
        flagged == {j \in 1..Len(results) : results[j].Sentiment = ApiError}
    IN  /\ Cardinality(flagged) = Cardinality(failed)
        /\ failed # {} => pc # "stopped"

\* the rows of the entries of feed f from entry e on that passed the recency
\* filter and received a topic from the relevance call
RECURSIVE QualifyingFrom(_, _)
QualifyingFrom(f, e) ==
    IF e > Len(parsed[f].value) THEN <<>>
    ELSE LET en == EntryAt(f, e)
             rc == CallsFor("relevance", f, e)
             sc == CallsFor("sentiment", f, e)
             matched == rc # {} /\ NamesTopic(calls[CHOOSE i \in rc : TRUE].reply,
                                              initial_keywords)
             row == [Headline |-> en.title,
                     Link |-> IF "link" \in DOMAIN en THEN en.link ELSE None,
                     MatchedKeyword |-> strip(calls[CHOOSE i \in rc : TRUE].reply.value),
                     Sentiment |-> LET r == calls[CHOOSE i \in sc : TRUE].reply
                                   IN  IF r.ok THEN strip(r.value) ELSE ApiError,
                     Date |-> en.published_parsed[1]]
         IN  (IF IsRecent(en, two_weeks_ago) /\ matched THEN <<row>> ELSE <<>>)
             \o QualifyingFrom(f, e + 1)

RECURSIVE QualifyingRows(_)
QualifyingRows(f) ==
    IF f > Len(parsed) THEN <<>>
    ELSE (IF parsed[f].ok THEN QualifyingFrom(f, 1) ELSE <<>>) \o QualifyingRows(f + 1)

\* C7: the report is, in feed order and then entry order, one row for every
\* entry that passed the recency filter and received a non-null relevance
\* match, and no other row.
C7_ReportIsQualifyingEntries ==
    pc = "done" => results = QualifyingRows(1)

\* C8: an entry occurrence gets at most one relevance call and at most one
\* sentiment call (so a failed call is not issued again); a relevance call is
\* for an entry that passed the recency filter, a sentiment call follows the
\* relevance call of the same entry that returned a topic.
C8_CallsAtMostOnce ==
    /\ \A i, j \in 1..Len(calls) :
          (/\ calls[i].fn = calls[j].fn
           /\ calls[i].feed = calls[j].feed
           /\ calls[i].entry = calls[j].entry) => i = j
    /\ \A i \in 1..Len(calls) :
          /\ calls[i].feed \in 1..Len(parsed)
          /\ parsed[calls[i].feed].ok
          /\ calls[i].entry \in 1..Len(parsed[calls[i].feed].value)
          /\ IsRecent(EntryAt(calls[i].feed, calls[i].entry), two_weeks_ago)
          /\ calls[i].fn = "sentiment" =>
                /\ i > 1
                /\ calls[i - 1].fn = "relevance"
                /\ calls[i - 1].feed = calls[i].feed
                /\ calls[i - 1].entry = calls[i].entry
                /\ NamesTopic(calls[i - 1].reply, initial_keywords)

\* the run ended; a relevance call failed and was not repeated, and another
\* entry got both calls
C8_Witness ==
    /\ pc = "done"
    /\ \E i \in 1..Len(calls) : calls[i].fn = "relevance" /\ ~calls[i].reply.ok
    /\ \E i \in 1..Len(calls) : calls[i].fn = "sentiment"

\* C9: an entry whose relevance reply is the token None gets no match: no
\* sentiment call and no row, whatever the topic list.
C9_NoneReplyIsNoMatch ==
    \A i \in 1..Len(calls) :
        (calls[i].fn = "relevance" /\ calls[i].reply = Returned(<<"None">>)) =>
            /\ CallsFor("sentiment", calls[i].feed, calls[i].entry) = {}
            /\ ~(pc = "sentiment" /\ fi = calls[i].feed /\ ei = calls[i].entry)
            /\ (i = Len(calls) /\ pc \in LoopStages) => matched_keyword = None

\* an exception that is no classifier error is about to be raised for the
\* current entry: its title or its link is read and it has none
EntryRaises ==
    \/ pc = "relevance" /\ "title" \notin DOMAIN entries[ei]
    \/ pc = "sentiment" /\ "link" \notin DOMAIN entries[ei]

\* the feeds that delivered entries and were abandoned at one of them
Abandoned == {f \in 1..Len(parsed) : parsed[f].ok /\ Count(FeedError(feeds[f])) > 0}

\* the entries of feed f that raise when processed
Faulty(f) ==
    {e \in 1..Len(parsed[f].value) :
        /\ IsRecent(EntryAt(f, e), two_weeks_ago)
        /\ \/ "title" \notin DOMAIN EntryAt(f, e)
           \/ /\ "link" \notin DOMAIN EntryAt(f, e)
              /\ CallsFor("sentiment", f, e) # {}}

\* C10: when processing an entry raises, the rows appended so far (those of earlier
\* entries of the same feed too) stay as they are, one error is reported for
\* the feed and the loop goes on with the next feed; the entry that raised and
\* the entries after it in that feed get no row and no further call.  Rows are
\* only ever appended, one per completed sentiment call.
C10_EntryExceptionAbandonsFeed ==
    /\ [][ /\ EntryRaises =>
                 /\ results' = results
                 /\ Len(messages') > Len(messages)
                 /\ SubSeq(messages', 1, Len(messages)) = messages
                 /\ messages'[Len(messages')] = FeedError(feeds[fi])
                 /\ fi' = fi + 1
                 /\ pc' = "feeds"
           /\ Len(results') >= Len(results)
           /\ SubSeq(results', 1, Len(results)) = results
         ]_vars
    /\ [](\A f \in Abandoned :
             /\ Count(FeedError(feeds[f])) = 1
             /\ fi > f
             /\ pc \in LoopStages \cup {"done"}
             /\ Faulty(f) # {}
             /\ \A i \in 1..Len(calls) :
                   calls[i].feed = f => \A e \in Faulty(f) : calls[i].entry <= e)
    /\ [](Len(results) =
             Cardinality({i \in 1..Len(calls) :
                 /\ calls[i].fn = "sentiment"
                 /\ "link" \in DOMAIN EntryAt(calls[i].feed, calls[i].entry)}))

\* feed A gave a row for its first entry and raised at its second; the row is
\* still there and feed B was parsed after it
C10_Witness ==
    /\ Len(parsed) = 2
    /\ 1 \in Abandoned
    /\ Faulty(1) = {2}
    /\ parsed[2].ok
    /\ Len(results) = 1
    /\ CallsFor("sentiment", 1, 1) # {}

\* what the run yields at its end: the table of the rows, or nothing shown
\* and the info that there are none
Done ==
    /\ pc = "done"
    /\ \/ results # <<>> /\ shown = Some(results)
       \/ results = <<>> /\ shown = None /\ Count(NoArticlesInfo) = 1

\* C6: every run ends either stopped before the loop over the feeds began
\* (fi = 0: no key, button not clicked, configuration error, empty list) or in
\* Done; and fi, once set, is never 0 again.  So a run that has begun the loop
\* reaches Done with the rows accumulated, whatever fails on the way.
C6_RunCompletes ==
    /\ [][fi # 0 => fi' # 0]_vars
    /\ <>(Done \/ (pc = "stopped" /\ fi = 0))

\* the run ended with a feed error, a relevance error and a sentiment error
\* behind it
C6_Witness ==
    /\ Done
    /\ \E f \in 1..Len(feeds) : Count(FeedError(feeds[f])) > 0
    /\ Count(RelevanceError) > 0
    /\ Count(SentimentError) > 0

====
